---------------------------- MODULE Spec2Model ----------------------------
(***************************************************************************)
(* Model of create_issues_from_csv.py: a batch importer that reads the     *)
(* rows of a CSV file and creates one Jira issue per row with one          *)
(* synchronous POST.                                                       *)
(*                                                                         *)
(* A Python str is a sequence of one-character strings.  An Optional[str]  *)
(* is None (the empty tuple) or Some(s) (the one-element tuple <<s>>).     *)
(***************************************************************************)
EXTENDS Integers, Sequences, FiniteSets, TLC

VARIABLES
    \* ---- the process (main and the __main__ block) ----
    env,          \* os.environ after load_dotenv(): key -> Optional[str]
    fs,           \* the CSV file: does it exist, its header row, its row count
    pc,           \* the statement main() is at
    i,            \* enumerate(reader, start=1): position of the current row
    row,          \* create_issue's argument (Some(dict)) until the payload is built
    created,      \* main's success counter
    output,       \* the lines printed to standard output, in order
    posts,        \* history: the row positions for which a POST was sent
    attempts,     \* history: the row positions for which create_issue was called
    returned,     \* history: the row positions for which create_issue returned
    payload,      \* create_issue's local payload (Some(dict)) or None
    inflight,     \* the requests sent and not yet answered
    response,     \* the current row's response (Some(response)) or None
    raised,       \* the exception raised and not yet handled (Some(e)) or None
    key,          \* create_issue's return value (Some(key)) or None
    exitcode,     \* the process's exit status (Some(n)) or None while running
    interruptedAt,\* history: where KeyboardInterrupt arrived (Some(pc)) or None
    \* ---- the pure functions, called on their own ----
    text,         \* the input: Optional[str]
    frow,         \* create_issue_payload's row argument
    fargs,        \* create_issue_payload's other arguments
    fpc,          \* which function was applied
    result        \* what it returned

vars == <<env, fs, pc, i, row, created, output, posts, attempts, returned,
          payload, inflight, response, raised, key, exitcode, interruptedAt,
          text, frow, fargs, fpc, result>>

procVars == <<env, fs, pc, i, row, created, output, posts, attempts, returned,
              payload, inflight, response, raised, key, exitcode, interruptedAt>>

funVars == <<text, frow, fargs, fpc, result>>

-----------------------------------------------------------------------------
(* Bounds *)

\* Longest input string given to the pure functions.
MaxLen == 3

\* Most data rows in the CSV file.
MaxRows == 2

-----------------------------------------------------------------------------
(* Python values *)

None == <<>>

Some(v) == <<v>>

\* Python's (x or ""), for an Optional[str] x.
OrEmpty(x) == IF x = None THEN <<>> ELSE x[1]

\* Python's truthiness of an Optional[str]: None and "" are falsy.
Truthy(x) == x # None /\ x[1] # <<>>

\* The characters the model's strings are made of.
Chars == {"a", "b", " ", ",", "\n", "\r"}

\* What str.strip() removes (the members of Chars that are whitespace).
Whitespace == {" ", "\n", "\r"}

\* Where str.splitlines() breaks (the members of Chars that are line
\* boundaries); "\r\n" is one boundary.
LineBreaks == {"\n", "\r"}

RECURSIVE lstrip(_)
lstrip(s) ==
    IF s = <<>> THEN s
    ELSE IF Head(s) \in Whitespace THEN lstrip(Tail(s)) ELSE s

RECURSIVE rstrip(_)
rstrip(s) ==
    IF s = <<>> THEN s
    ELSE IF s[Len(s)] \in Whitespace THEN rstrip(SubSeq(s, 1, Len(s) - 1)) ELSE s

\* str.strip()
strip(s) == rstrip(lstrip(s))

RECURSIVE rstrip_slash(_)
\* str.rstrip("/")
rstrip_slash(s) ==
    IF s = <<>> THEN s
    ELSE IF s[Len(s)] = "/" THEN rstrip_slash(SubSeq(s, 1, Len(s) - 1)) ELSE s

RECURSIVE SplitFrom(_, _, _)
SplitFrom(s, sep, cur) ==
    IF s = <<>> THEN <<cur>>
    ELSE IF Head(s) = sep THEN <<cur>> \o SplitFrom(Tail(s), sep, <<>>)
    ELSE SplitFrom(Tail(s), sep, Append(cur, Head(s)))

\* str.split(sep) for a one-character sep: never empty, "" gives [""].
split(s, sep) == SplitFrom(s, sep, <<>>)

RECURSIVE SplitLinesFrom(_, _)
SplitLinesFrom(s, cur) ==
    IF s = <<>> THEN (IF cur = <<>> THEN <<>> ELSE <<cur>>)
    ELSE IF Head(s) = "\r" /\ Len(s) >= 2 /\ s[2] = "\n"
         THEN <<cur>> \o SplitLinesFrom(SubSeq(s, 3, Len(s)), <<>>)
    ELSE IF Head(s) \in LineBreaks
         THEN <<cur>> \o SplitLinesFrom(Tail(s), <<>>)
    ELSE SplitLinesFrom(Tail(s), Append(cur, Head(s)))

\* Variant: break on "\n" alone, as str.split("\n") does.
SplitOnNewlineOnly(s) == split(s, "\n")

\* str.splitlines(): no line for "", no empty last line after a final break.
splitlines(s) == SplitLinesFrom(s, <<>>)

\* fields[k] = v on a dict
Put(d, k, v) == [x \in DOMAIN d \cup {k} |-> IF x = k THEN v ELSE d[x]]

\* row.get(col)
Get(d, k) == IF k \in DOMAIN d THEN d[k] ELSE None

EmptyDict == [x \in {} |-> None]

-----------------------------------------------------------------------------
(* Configuration *)

\* FIELD_MAP, in insertion order: <<CSV column, Jira field>>.
FIELD_MAP == << <<"Summary", "summary">>,
                <<"Labels", "labels">>,
                <<"Description", "description">> >>

CUSTOM_FIELD_AS_LIST == {}

\* The Jira fields of FIELD_MAP whose id starts with "customfield_": none.
CustomFieldIds == {}

\* jira_field.startswith("customfield_"); a field id is an atomic string here,
\* so the prefix test is membership in CustomFieldIds.
IsCustomField(jira_field) == jira_field \in CustomFieldIds

-----------------------------------------------------------------------------
(* to_adf_doc and parse_labels *)

Paragraph(line) ==
    [type |-> "paragraph", content |-> << [type |-> "text", text |-> line] >>]

\* Variant: the lines are those of str.split("\n").
to_adf_doc_SplitOnNewline(t) ==
    LET split0 == SplitOnNewlineOnly(OrEmpty(t))
        lines == IF split0 = <<>> THEN << <<>> >> ELSE split0
    IN  [type |-> "doc", version |-> 1,
         content |-> [k \in 1..Len(lines) |-> Paragraph(lines[k])]]

\* to_adf_doc(text), text an Optional[str]
to_adf_doc(t) ==
    LET split0 == splitlines(OrEmpty(t))
        lines == IF split0 = <<>> THEN << <<>> >> ELSE split0
    IN  [type |-> "doc", version |-> 1,
         content |-> [k \in 1..Len(lines) |-> Paragraph(lines[k])]]

RECURSIVE StripAndKeep(_)
\* [v.strip() for v in pieces if v.strip()]
StripAndKeep(pieces) ==
    IF pieces = <<>> THEN <<>>
    ELSE LET v == strip(Head(pieces))
         IN  (IF v # <<>> THEN <<v>> ELSE <<>>) \o StripAndKeep(Tail(pieces))

\* Variant: the comprehension without its "if v.strip()".
parse_labels_KeepEmpty(value) ==
    IF ~Truthy(value) THEN <<>>
    ELSE LET pieces == split(value[1], ",")
         IN  [k \in 1..Len(pieces) |-> strip(pieces[k])]

\* parse_labels(value), value an Optional[str]
parse_labels(value) ==
    IF ~Truthy(value) THEN <<>>
    ELSE StripAndKeep(split(value[1], ","))

-----------------------------------------------------------------------------
(* create_issue_payload *)

\* Variant: the loop body without the "continue" for an empty summary.
MapField_NoSkip(fields, r, csv_col, jira_field) ==
    LET val == strip(OrEmpty(Get(r, csv_col)))
    IN  IF jira_field = "labels" THEN Put(fields, "labels", parse_labels(Some(val)))
        ELSE IF jira_field = "description"
             THEN Put(fields, "description", to_adf_doc(Some(val)))
        ELSE Put(fields, jira_field, val)

\* One pass of the loop over FIELD_MAP.items().
MapField(fields, r, csv_col, jira_field) ==
    LET val == strip(OrEmpty(Get(r, csv_col)))
    IN  IF val = <<>> /\ jira_field \in {"summary"} THEN fields
        ELSE IF jira_field = "labels"
             THEN Put(fields, "labels", parse_labels(Some(val)))
        ELSE IF jira_field = "description"
             THEN Put(fields, "description", to_adf_doc(Some(val)))
        ELSE IF IsCustomField(jira_field)
             THEN IF jira_field \in CUSTOM_FIELD_AS_LIST
                  THEN Put(fields, jira_field,
                           IF val # <<>> THEN <<val>> ELSE <<>>)
                  ELSE Put(fields, jira_field, val)
        ELSE Put(fields, jira_field, val)

RECURSIVE MapFields(_, _, _)
\* The loop over FIELD_MAP.items(), from entry k on.
MapFields(fields, r, k) ==
    IF k > Len(FIELD_MAP) THEN fields
    ELSE MapFields(MapField(fields, r, FIELD_MAP[k][1], FIELD_MAP[k][2]), r, k + 1)

create_issue_payload(r, project_key, issue_type, epic_key, assignee_account_id) ==
    LET f0 == [project |-> [key |-> project_key],
               issuetype |-> [name |-> issue_type]]
        f1 == MapFields(f0, r, 1)
        f2 == IF Truthy(assignee_account_id)
              THEN Put(f1, "assignee", [accountId |-> assignee_account_id[1]])
              ELSE f1
        f3 == IF Truthy(epic_key)
              THEN Put(f2, "parent", [key |-> epic_key[1]])
              ELSE f2
    IN  [fields |-> f3]

-----------------------------------------------------------------------------
(* The pure functions applied to bounded inputs *)

RECURSIVE StringsUpTo(_)
StringsUpTo(n) ==
    IF n = 0 THEN { <<>> }
    ELSE LET shorter == StringsUpTo(n - 1)
         IN  shorter \cup {Append(s, c) : s \in {t \in shorter : Len(t) = n - 1},
                                          c \in Chars}

\* The example of the specification: "a, b ,,c".
ExampleLabels == <<"a", ",", " ", "b", " ", ",", ",", "c">>

\* None, and every string of at most MaxLen characters, and the example.
Inputs == {None} \cup {Some(s) : s \in StringsUpTo(MaxLen) \cup {ExampleLabels}}

Columns == {FIELD_MAP[k][1] : k \in DOMAIN FIELD_MAP}

\* (project_key, issue_type, epic_key, assignee_account_id)
PayloadArgs ==
    { <<<<"P">>, <<"T">>, None, None>>,
      <<<<"P">>, <<"T">>, Some(<<>>), Some(<<>>)>>,
      <<<<"P">>, <<"T">>, Some(<<"E">>), Some(<<"u">>)>> }

-----------------------------------------------------------------------------
(* The environment, the CSV file and the service's answers *)

RequiredKeys == {"CSV_PATH", "JIRA_BASE_URL", "JIRA_EMAIL", "JIRA_API_TOKEN",
                 "JIRA_PROJECT_KEY"}

OptionalKeys == {"JIRA_ISSUE_TYPE", "EPIC_KEY", "ASSIGNEE_ACCOUNT_ID"}

\* The value a key has when it is set to something.
SetValue(k) ==
    CASE k = "JIRA_BASE_URL" -> <<"h", "/">>
      [] k = "JIRA_ISSUE_TYPE" -> <<"B">>
      [] k = "EPIC_KEY" -> <<"E">>
      [] k = "ASSIGNEE_ACCOUNT_ID" -> <<"u">>
      [] k = "JIRA_PROJECT_KEY" -> <<"P">>
      [] OTHER -> <<"v">>

EnvValue(k, how) ==
    CASE how = "unset" -> None
      [] how = "empty" -> Some(<<>>)
      [] OTHER -> Some(SetValue(k))

\* Every required key is unset, empty or set; the optional keys are all unset
\* or all set.
Envs ==
    { [k \in RequiredKeys \cup OptionalKeys |->
          IF k \in RequiredKeys THEN EnvValue(k, req[k])
          ELSE IF opt THEN Some(SetValue(k)) ELSE None] :
      req \in [RequiredKeys -> {"unset", "empty", "set"}], opt \in BOOLEAN }

Fieldnames == <<"Summary", "Labels", "Description">>

\* The file is missing, or empty (no header row), or a header row and rows.
Files ==
    { [exists |-> FALSE, fieldnames |-> <<>>, nrows |-> 0],
      [exists |-> TRUE, fieldnames |-> <<>>, nrows |-> 0] }
    \cup { [exists |-> TRUE, fieldnames |-> h, nrows |-> n] :
           h \in {Fieldnames, <<"Summary">>}, n \in 0..MaxRows }

\* Rows under the full header: a full row, a row of empty cells, and a short
\* row (csv.DictReader gives its missing cells None).
FullRows ==
    { [Summary |-> Some(<<"a", " ", "b">>),
       Labels |-> Some(<<"a", ",", " ", "b">>),
       Description |-> Some(<<"a", "\n", "b">>)],
      [Summary |-> Some(<<>>), Labels |-> Some(<<>>), Description |-> Some(<<>>)],
      [Summary |-> Some(<<" ">>), Labels |-> None, Description |-> None] }

\* The rows csv.DictReader yields under the header row h: one cell per header.
Rows(h) == { [c \in {h[k] : k \in DOMAIN h} |-> r[c]] : r \in FullRows }

StatusCodes == {101, 199, 200, 201, 299, 300, 400}

\* Response bodies: not JSON, JSON without "key", JSON with "key".
Bodies == {"oops", "{}", "{\"key\": \"PROJ-1\"}"}

\* resp.json(): the parsed body, or None where the parse raises.
Json(body) ==
    CASE body = "{}" -> Some(EmptyDict)
      [] body = "{\"key\": \"PROJ-1\"}" -> Some([key |-> "PROJ-1"])
      [] OTHER -> None

\* os.getenv(key)
getenv(k) == env[k]

\* os.getenv(key, default)
getenv_default(k, default) == IF env[k] = None THEN default ELSE env[k][1]

\* env_required(key) raises
env_missing(k) == ~Truthy(getenv(k))

\* jira_base_url() + "/rest/api/3/issue"
Url == rstrip_slash(env["JIRA_BASE_URL"][1]) \o <<"/rest/api/3/issue">>

\* jira_auth()
jira_auth == <<env["JIRA_EMAIL"][1], env["JIRA_API_TOKEN"][1]>>

\* The arguments of requests.post.
Request ==
    [url |-> Url,
     headers |-> [Accept |-> "application/json", ContentType |-> "application/json"],
     auth |-> jira_auth,
     json |-> payload[1],
     timeout |-> 60]

Line(kind, n, arg) == [kind |-> kind, i |-> n, arg |-> arg]

MissingEnv(k) == [type |-> "RuntimeError", arg |-> <<"Missing required environment variable", k>>]

-----------------------------------------------------------------------------
(* main() and create_issue(), statement by statement *)

ProcInit ==
    /\ env \in Envs
    /\ fs \in Files
    /\ pc = "main_env"
    /\ i = 0
    /\ row = None
    /\ created = 0
    /\ output = <<>>
    /\ posts = <<>>
    /\ attempts = <<>>
    /\ returned = <<>>
    /\ payload = None
    /\ inflight = <<>>
    /\ response = None
    /\ raised = None
    /\ key = None
    /\ exitcode = None
    /\ interruptedAt = None

\* An exception leaves main(): the interpreter prints the traceback to
\* standard error and exits with status 1.
Uncaught(e) ==
    /\ raised' = Some(e)
    /\ exitcode' = Some(1)
    /\ pc' = "exited"
    /\ UNCHANGED <<funVars, env, fs, i, row, created, output, posts, attempts, returned,
                   payload, inflight, response, key, interruptedAt>>

\* An exception leaves create_issue(): its locals are gone, the row's except
\* clause is next.
Raise(e) ==
    /\ raised' = Some(e)
    /\ pc' = "except"
    /\ row' = None
    /\ payload' = None
    /\ UNCHANGED <<funVars, env, fs, i, created, output, posts, attempts, returned,
                   inflight, response, key, exitcode, interruptedAt>>

Goto(next) ==
    /\ pc' = next
    /\ UNCHANGED <<funVars, env, fs, i, row, created, output, posts, attempts, returned,
                   payload, inflight, response, raised, key, exitcode,
                   interruptedAt>>

MainCsvPath ==
    /\ pc = "main_env"
    /\ IF env_missing("CSV_PATH") THEN Uncaught(MissingEnv("CSV_PATH"))
       ELSE Goto("main_exists")

MainExists ==
    /\ pc = "main_exists"
    /\ IF ~fs.exists
       THEN Uncaught([type |-> "FileNotFoundError", arg |-> <<"CSV not found">>])
       ELSE Goto("main_open")

MainOpen ==
    /\ pc = "main_open"
    /\ IF fs.fieldnames = <<>>
       THEN Uncaught([type |-> "RuntimeError", arg |-> <<"CSV has no headers.">>])
       ELSE Goto("main_debug")

MainDebug ==
    /\ pc = "main_debug"
    /\ output' = output \o <<Line("DEBUG", 0, "CSV headers detected:")>>
                        \o [k \in 1..Len(fs.fieldnames) |->
                               Line("DEBUG", 0, fs.fieldnames[k])]
    /\ created' = 0
    /\ pc' = "loop"
    /\ UNCHANGED <<funVars, env, fs, i, row, posts, attempts, returned, payload,
                   inflight, response, raised, key, exitcode, interruptedAt>>

\* The reader yields the next row and create_issue(row) is called.
NextRow ==
    /\ pc = "loop"
    /\ i < fs.nrows
    /\ \E r \in Rows(fs.fieldnames) :
          /\ row' = Some(r)
          /\ i' = i + 1
          /\ attempts' = Append(attempts, i + 1)
          /\ pc' = "ci_base"
    /\ UNCHANGED <<funVars, env, fs, created, output, posts, returned, payload, inflight,
                   response, raised, key, exitcode, interruptedAt>>

\* The reader is exhausted.
LoopEnd ==
    /\ pc = "loop"
    /\ i >= fs.nrows
    /\ Goto("summary")

CreateIssueBaseUrl ==
    /\ pc = "ci_base"
    /\ IF env_missing("JIRA_BASE_URL") THEN Raise(MissingEnv("JIRA_BASE_URL"))
       ELSE Goto("ci_project")

CreateIssuePayload ==
    /\ pc = "ci_project"
    /\ IF env_missing("JIRA_PROJECT_KEY")
       THEN Raise(MissingEnv("JIRA_PROJECT_KEY"))
       ELSE /\ payload' = Some(create_issue_payload(
                                  row[1],
                                  getenv("JIRA_PROJECT_KEY")[1],
                                  getenv_default("JIRA_ISSUE_TYPE", <<"T", "a", "s", "k">>),
                                  getenv("EPIC_KEY"),
                                  getenv("ASSIGNEE_ACCOUNT_ID")))
            /\ row' = None
            /\ pc' = "ci_post"
            /\ UNCHANGED <<funVars, env, fs, i, created, output, posts, attempts, returned,
                           inflight, response, raised, key, exitcode,
                           interruptedAt>>

\* Variant: a POST that is sent twice.
CreateIssuePost_Twice ==
    /\ pc = "ci_post"
    /\ IF env_missing("JIRA_EMAIL") THEN Raise(MissingEnv("JIRA_EMAIL"))
       ELSE IF env_missing("JIRA_API_TOKEN") THEN Raise(MissingEnv("JIRA_API_TOKEN"))
       ELSE /\ posts' = posts \o <<i, i>>
            /\ inflight' = Append(inflight, Request)
            /\ pc' = "ci_wait"
            /\ UNCHANGED <<funVars, env, fs, i, row, created, output, attempts, returned,
                           payload, response, raised, key, exitcode,
                           interruptedAt>>

\* jira_auth() is evaluated, then requests.post sends the request.
CreateIssuePost ==
    /\ pc = "ci_post"
    /\ IF env_missing("JIRA_EMAIL") THEN Raise(MissingEnv("JIRA_EMAIL"))
       ELSE IF env_missing("JIRA_API_TOKEN") THEN Raise(MissingEnv("JIRA_API_TOKEN"))
       ELSE /\ posts' = Append(posts, i)
            /\ inflight' = Append(inflight, Request)
            /\ pc' = "ci_wait"
            /\ UNCHANGED <<funVars, env, fs, i, row, created, output, attempts, returned,
                           payload, response, raised, key, exitcode,
                           interruptedAt>>

\* requests.post returns the service's response.
PostReturns ==
    /\ pc = "ci_wait"
    /\ \E st \in StatusCodes, body \in Bodies :
          response' = Some([status_code |-> st, text |-> body])
    /\ inflight' = Tail(inflight)
    /\ pc' = "ci_status"
    /\ UNCHANGED <<funVars, env, fs, i, row, created, output, posts, attempts, returned,
                   payload, raised, key, exitcode, interruptedAt>>

\* requests.post raises: no answer within the timeout, or no connection.
PostRaises ==
    /\ pc = "ci_wait"
    /\ inflight' = Tail(inflight)
    /\ raised' = Some([type |-> "RequestException", arg |-> <<"timeout">>])
    /\ pc' = "except"
    /\ payload' = None
    /\ UNCHANGED <<funVars, env, fs, i, row, created, output, posts, attempts, returned,
                   response, key, exitcode, interruptedAt>>

CreateIssueStatus ==
    /\ pc = "ci_status"
    /\ IF response[1].status_code >= 300
       THEN Raise([type |-> "RuntimeError",
                   arg |-> <<response[1].status_code, response[1].text>>])
       ELSE Goto("ci_json")

CreateIssueReturn ==
    /\ pc = "ci_json"
    /\ LET data == Json(response[1].text)
       IN  IF data = None
           THEN Raise([type |-> "JSONDecodeError", arg |-> <<response[1].text>>])
           ELSE IF "key" \notin DOMAIN data[1]
           THEN Raise([type |-> "KeyError", arg |-> <<"key">>])
           ELSE /\ key' = Some(data[1]["key"])
                /\ returned' = Append(returned, i)
                /\ payload' = None
                /\ pc' = "inc"
                /\ UNCHANGED <<funVars, env, fs, i, row, created, output, posts, attempts,
                               inflight, response, raised, exitcode,
                               interruptedAt>>

IncrementCreated ==
    /\ pc = "inc"
    /\ created' = created + 1
    /\ pc' = "print_created"
    /\ UNCHANGED <<funVars, env, fs, i, row, output, posts, attempts, returned, payload,
                   inflight, response, raised, key, exitcode, interruptedAt>>

PrintCreated ==
    /\ pc = "print_created"
    /\ output' = Append(output, Line("Created", i, key[1]))
    /\ key' = None
    /\ response' = None
    /\ pc' = "loop"
    /\ UNCHANGED <<funVars, env, fs, i, row, created, posts, attempts, returned, payload,
                   inflight, raised, exitcode, interruptedAt>>

\* Variant: no try/except around create_issue(row).
ExceptHandler_Propagate ==
    /\ pc = "except"
    /\ exitcode' = Some(1)
    /\ pc' = "exited"
    /\ UNCHANGED <<funVars, env, fs, i, row, created, output, posts, attempts, returned,
                   payload, inflight, response, raised, key, interruptedAt>>

\* Variant: "except Exception: pass".
ExceptHandler_Silent ==
    /\ pc = "except"
    /\ raised' = None
    /\ response' = None
    /\ pc' = "loop"
    /\ UNCHANGED <<funVars, env, fs, i, row, created, output, posts, attempts, returned,
                   payload, inflight, key, exitcode, interruptedAt>>

\* Variant: the counter is incremented in the except clause too.
ExceptHandler_Counts ==
    /\ pc = "except"
    /\ output' = Append(output, Line("ERROR", i, raised[1]))
    /\ created' = created + 1
    /\ raised' = None
    /\ response' = None
    /\ pc' = "loop"
    /\ UNCHANGED <<funVars, env, fs, i, row, posts, attempts, returned, payload,
                   inflight, key, exitcode, interruptedAt>>

\* except Exception as e: print; the loop goes on.
ExceptHandler ==
    /\ pc = "except"
    /\ output' = Append(output, Line("ERROR", i, raised[1]))
    /\ raised' = None
    /\ response' = None
    /\ pc' = "loop"
    /\ UNCHANGED <<funVars, env, fs, i, row, created, posts, attempts, returned, payload,
                   inflight, key, exitcode, interruptedAt>>

PrintSummary ==
    /\ pc = "summary"
    /\ output' = Append(output, Line("Done", 0, created))
    /\ pc' = "main_return"
    /\ UNCHANGED <<funVars, env, fs, i, row, created, posts, attempts, returned, payload,
                   inflight, response, raised, key, exitcode, interruptedAt>>

\* main() returns and the interpreter exits with status 0.
ExitNormally ==
    /\ pc = "main_return"
    /\ exitcode' = Some(0)
    /\ pc' = "exited"
    /\ UNCHANGED <<funVars, env, fs, i, row, created, output, posts, attempts, returned,
                   payload, inflight, response, raised, key, interruptedAt>>

\* Variant: the row's clause is a bare "except:", which catches
\* KeyboardInterrupt too.
Interrupt_CaughtByRow ==
    /\ pc \in {"ci_base", "ci_project", "ci_post", "ci_wait", "ci_status", "ci_json"}
    /\ interruptedAt = None
    /\ interruptedAt' = Some(pc)
    /\ raised' = Some([type |-> "KeyboardInterrupt", arg |-> <<>>])
    /\ inflight' = <<>>
    /\ row' = None
    /\ payload' = None
    /\ pc' = "except"
    /\ UNCHANGED <<funVars, env, fs, i, created, output, posts, attempts, returned,
                   response, key, exitcode>>

\* Ctrl+C while main() runs: KeyboardInterrupt is no Exception, so it passes
\* the row's except clause and reaches the __main__ block's, which prints and
\* calls sys.exit(1).
Interrupt ==
    /\ pc # "exited"
    /\ interruptedAt = None
    /\ interruptedAt' = Some(pc)
    /\ output' = Append(output, Line("Interrupted", 0, "by user (Ctrl+C)."))
    /\ inflight' = <<>>
    /\ exitcode' = Some(1)
    /\ pc' = "exited"
    /\ UNCHANGED <<funVars, env, fs, i, row, created, posts, attempts, returned, payload,
                   response, raised, key>>

Step ==
    \/ MainCsvPath
    \/ MainExists
    \/ MainOpen
    \/ MainDebug
    \/ NextRow
    \/ LoopEnd
    \/ CreateIssueBaseUrl
    \/ CreateIssuePayload
    \/ CreateIssuePost
    \/ PostReturns
    \/ PostRaises
    \/ CreateIssueStatus
    \/ CreateIssueReturn
    \/ IncrementCreated
    \/ PrintCreated
    \/ ExceptHandler
    \/ PrintSummary
    \/ ExitNormally

Init ==
    /\ ProcInit
    /\ text = None
    /\ frow = EmptyDict
    /\ fargs = None
    /\ fpc = "idle"
    /\ result = None

Next ==
    \/ Step
    \/ Interrupt

Spec == Init /\ [][Next]_vars

\* The interpreter always takes the next step of main(), and requests.post
\* returns or raises within its timeout; nothing obliges Ctrl+C to arrive.
FairSpec == Spec /\ WF_vars(Step)

-----------------------------------------------------------------------------
(* The pure functions, each applied once to an input *)

FunInit ==
    /\ text \in Inputs
    /\ frow = EmptyDict
    /\ fargs = None
    /\ fpc = "start"
    /\ result = None
    /\ env = [k \in RequiredKeys \cup OptionalKeys |-> None]
    /\ fs = [exists |-> FALSE, fieldnames |-> <<>>, nrows |-> 0]
    /\ pc = "main_env"
    /\ i = 0
    /\ row = None
    /\ created = 0
    /\ output = <<>>
    /\ posts = <<>>
    /\ attempts = <<>>
    /\ returned = <<>>
    /\ payload = None
    /\ inflight = <<>>
    /\ response = None
    /\ raised = None
    /\ key = None
    /\ exitcode = None
    /\ interruptedAt = None

CallToAdfDoc ==
    /\ fpc = "start"
    /\ result' = to_adf_doc(text)
    /\ fpc' = "to_adf_doc"
    /\ UNCHANGED <<text, frow, fargs, procVars>>

CallParseLabels ==
    /\ fpc = "start"
    /\ result' = parse_labels(text)
    /\ fpc' = "parse_labels"
    /\ UNCHANGED <<text, frow, fargs, procVars>>

\* The row holds the input in each column it has.
CallCreateIssuePayload ==
    /\ fpc = "start"
    /\ \E present \in SUBSET Columns, a \in PayloadArgs :
          /\ frow' = [c \in present |-> text]
          /\ fargs' = Some(a)
          /\ result' = create_issue_payload([c \in present |-> text],
                                            a[1], a[2], a[3], a[4])
    /\ fpc' = "create_issue_payload"
    /\ UNCHANGED <<text, procVars>>

FunNext ==
    \/ CallToAdfDoc
    \/ CallParseLabels
    \/ CallCreateIssuePayload

FunSpec == FunInit /\ [][FunNext]_vars

-----------------------------------------------------------------------------
(* Properties *)

Min(S) == CHOOSE x \in S : \A y \in S : x <= y

Max(S) == CHOOSE x \in S : \A y \in S : x >= y

\* The k-th smallest member of a set of numbers.
KthOf(S, k) == CHOOSE x \in S : Cardinality({y \in S : y < x}) = k - 1

\* s[lo..hi] without the whitespace around it, by positions.
Trimmed(s, lo, hi) ==
    LET ink == {p \in lo..hi : s[p] \notin Whitespace}
    IN  IF ink = {} THEN <<>> ELSE SubSeq(s, Min(ink), Max(ink))

\* The lines printed for rows, in order.
RowLines == SelectSeq(output, LAMBDA l : l.kind \in {"Created", "ERROR"})

CreatedLines == SelectSeq(output, LAMBDA l : l.kind = "Created")

SummaryLines == SelectSeq(output, LAMBDA l : l.kind = "Done")

SummaryPrinted == SummaryLines # <<>>

\* A required setting is missing or empty, or the file is missing, or it has
\* no header row.
ConfigAbsent ==
    \/ \E k \in RequiredKeys : ~Truthy(env[k])
    \/ ~fs.exists
    \/ fs.fieldnames = <<>>

\* C1: when a required setting is missing or empty, or the CSV file does not
\* exist or has no header row, no row is processed: no outcome line is
\* printed, no request is sent and the summary is not printed.
C1_FailFast ==
    ConfigAbsent =>
        /\ RowLines = <<>>
        /\ attempts = <<>>
        /\ posts = <<>>
        /\ ~SummaryPrinted

\* C2: whatever rows fail in create_issue, once the loop has started every
\* row 1..N is attempted in file order and, unless Ctrl+C arrives, the summary
\* is eventually printed after row N.
C2_BatchCompletes ==
    /\ [](SummaryPrinted =>
            /\ Len(attempts) = fs.nrows
            /\ \A k \in 1..Len(attempts) : attempts[k] = k)
    /\ (pc = "loop") ~> (SummaryPrinted \/ interruptedAt # None)

C2_Witness ==
    /\ SummaryPrinted
    /\ Len(RowLines) = 2
    /\ RowLines[1].kind = "ERROR"
    /\ RowLines[2].kind = "Created"

\* C3: the k-th row line printed is the line of row k, a row's line is there
\* when the loop goes on to the next row, and a run that ends without Ctrl+C
\* has printed exactly one line, Created or ERROR, for each row 1..N.
C3_OneLinePerRow ==
    /\ \A k \in 1..Len(RowLines) : RowLines[k].i = k
    /\ pc = "loop" => Len(RowLines) = i
    /\ (pc \in {"summary", "main_return"} \/ exitcode = Some(0))
          => Len(RowLines) = fs.nrows

C3_Witness ==
    /\ exitcode = Some(0)
    /\ Len(RowLines) = 2
    /\ RowLines[1].kind = "Created"
    /\ RowLines[2].kind = "ERROR"

\* C4 as stated: at every point of the run the counter equals the number of
\* Created lines printed so far, and the summary's number is the number of
\* rows for which create_issue returned.
C4_CounterAlwaysExact ==
    /\ created = Len(CreatedLines)
    /\ \A k \in 1..Len(SummaryLines) : SummaryLines[k].arg = Len(returned)

\* The counter was incremented for a row whose Created line is not printed
\* yet (or never will be: Ctrl+C arrived right there).
CreatedPending ==
    IF pc = "print_created" \/ interruptedAt = Some("print_created") THEN 1 ELSE 0

\* C4, amended: the counter equals the number of Created lines printed so
\* far, plus one between the increment and the print of that row's line; it
\* never decreases, a step that prints an ERROR line leaves it alone, and the
\* summary's number is the number of rows for which create_issue returned.
C4_CounterExact ==
    /\ [](/\ created = Len(CreatedLines) + CreatedPending
          /\ \A k \in 1..Len(SummaryLines) :
                /\ SummaryLines[k].arg = Len(returned)
                /\ SummaryLines[k].arg = Len(CreatedLines))
    /\ [][/\ created' >= created
          /\ (Len(output') > Len(output) /\ output'[Len(output')].kind = "ERROR")
                => created' = created]_vars

C4_Witness ==
    /\ SummaryPrinted
    /\ SummaryLines[1].arg = 1
    /\ Len(RowLines) = 2
    /\ RowLines[1].kind = "ERROR"

\* The response has a 2xx status and a JSON body with "key".
SuccessResponse(r) ==
    /\ r.status_code \in 200..299
    /\ Json(r.text) # None
    /\ "key" \in DOMAIN Json(r.text)[1]

\* C5: create_issue returns the body's "key" exactly when the status is in
\* 200..299 and the JSON body has "key"; on any other response it raises.
C5_SuccessIff2xx ==
    /\ pc = "inc" => /\ SuccessResponse(response[1])
                     /\ key = Some(Json(response[1].text)[1]["key"])
    /\ (pc = "except" /\ response # None) => ~SuccessResponse(response[1])

\* The run ended with an exception other than KeyboardInterrupt leaving main().
UncaughtError == pc = "exited" /\ interruptedAt = None /\ raised # None

LoopPcs == {"loop", "ci_base", "ci_project", "ci_post", "ci_wait", "ci_status",
            "ci_json", "inc", "print_created", "except"}

\* C6: the process exits with 0 exactly on normal completion, however many
\* rows failed, and with a non-zero status on Ctrl+C or an uncaught error;
\* Ctrl+C during the row loop ends the run at once: nothing more is attempted,
\* sent or printed for a row and the summary is not printed.
C6_Termination ==
    /\ [](/\ pc = "exited" => exitcode \in {Some(0), Some(1)}
          /\ exitcode = Some(0) <=>
                (pc = "exited" /\ interruptedAt = None /\ raised = None /\ SummaryPrinted)
          /\ (interruptedAt # None \/ UncaughtError) => exitcode = Some(1)
          /\ (interruptedAt # None /\ interruptedAt[1] \in LoopPcs)
                => pc = "exited" /\ ~SummaryPrinted)
    /\ [][interruptedAt # None =>
            /\ attempts' = attempts
            /\ posts' = posts
            /\ output' = output]_vars

C6_Witness ==
    /\ interruptedAt = Some("ci_wait")
    /\ exitcode = Some(1)
    /\ i = 2
    /\ RowLines # <<>>
    /\ RowLines[1].kind = "ERROR"

\* The cell of a row's column is there and has a character that is not
\* whitespace.
NonBlank(cell) ==
    /\ cell # None
    /\ \E p \in 1..Len(cell[1]) : cell[1][p] \notin Whitespace

\* C7: the payload has a "summary" exactly when the row has a Summary cell
\* that is not empty after trimming, its value is the trimmed cell, and a row
\* without the column or with a None cell gets a payload like any other.
C7_SummaryPresence ==
    fpc = "create_issue_payload" =>
        LET cell == Get(frow, "Summary")
        IN  /\ "fields" \in DOMAIN result
            /\ {"project", "issuetype"} \subseteq DOMAIN result.fields
            /\ "summary" \in DOMAIN result.fields <=> NonBlank(cell)
            /\ NonBlank(cell) =>
                  result.fields["summary"] = Trimmed(cell[1], 1, Len(cell[1]))

C7_Witness ==
    /\ fpc = "create_issue_payload"
    /\ "Summary" \in DOMAIN frow
    /\ text = Some(<<" ", "a", "\n">>)
    /\ "summary" \in DOMAIN result.fields
    /\ result.fields["summary"] = <<"a">>

\* The positions where a line boundary of s ends ("\r\n" is one boundary).
LineEnds(s) ==
    {p \in 1..Len(s) : /\ s[p] \in LineBreaks
                       /\ ~(s[p] = "\r" /\ p < Len(s) /\ s[p + 1] = "\n")}

\* Where the boundary that ends at p starts.
BreakStart(s, p) == IF s[p] = "\n" /\ p > 1 /\ s[p - 1] = "\r" THEN p - 1 ELSE p

\* The number of lines of s: one per boundary, and the rest after the last.
NumLines(s) ==
    Cardinality(LineEnds(s))
        + (IF Len(s) > 0 /\ Len(s) \notin LineEnds(s) THEN 1 ELSE 0)

\* The k-th line of s, without its boundary.
LineOf(s, k) ==
    LET ends == LineEnds(s)
        lo == IF k = 1 THEN 1 ELSE KthOf(ends, k - 1) + 1
        hi == IF k <= Cardinality(ends) THEN BreakStart(s, KthOf(ends, k)) - 1
              ELSE Len(s)
    IN  SubSeq(s, lo, hi)

\* C8: to_adf_doc returns, for every input, a document of type "doc" and
\* version 1 with one paragraph per line of the text, in line order, each
\* holding one text node with that line; for an empty or None input it is one
\* paragraph with one empty text node.
C8_OneParagraphPerLine ==
    fpc = "to_adf_doc" =>
        LET s == OrEmpty(text)
        IN  /\ DOMAIN result = {"type", "version", "content"}
            /\ result.type = "doc"
            /\ result.version = 1
            /\ IF s = <<>>
               THEN result.content = <<Paragraph(<<>>)>>
               ELSE /\ Len(result.content) = NumLines(s)
                    /\ \A k \in 1..NumLines(s) :
                          result.content[k] =
                             [type |-> "paragraph",
                              content |-> <<[type |-> "text", text |-> LineOf(s, k)]>>]

C8_Witness ==
    /\ fpc = "to_adf_doc"
    /\ text = Some(<<"a", "\n", "b">>)
    /\ Len(result.content) = 2
    /\ result.content[2].content[1].text = <<"b">>

\* The positions of the commas of s.
Commas(s) == {p \in 1..Len(s) : s[p] = ","}

\* The k-th comma-separated piece of s is s[PieceLo..PieceHi].
PieceLo(s, k) == IF k = 1 THEN 1 ELSE KthOf(Commas(s), k - 1) + 1

PieceHi(s, k) ==
    IF k = Cardinality(Commas(s)) + 1 THEN Len(s) ELSE KthOf(Commas(s), k) - 1

\* The pieces that are not empty after trimming.
KeptPieces(s) ==
    {k \in 1..(Cardinality(Commas(s)) + 1) :
        Trimmed(s, PieceLo(s, k), PieceHi(s, k)) # <<>>}

\* C9: parse_labels returns the comma-separated pieces of its input, each
\* trimmed, without those that are empty after trimming, in input order with
\* duplicates kept; an empty or None input gives the empty sequence, and
\* "a, b ,,c" gives ["a", "b", "c"].
C9_ParseLabels ==
    fpc = "parse_labels" =>
        LET s == OrEmpty(text)
            kept == KeptPieces(s)
        IN  /\ Len(result) = Cardinality(kept)
            /\ \A j \in 1..Cardinality(kept) :
                  result[j] = Trimmed(s, PieceLo(s, KthOf(kept, j)),
                                         PieceHi(s, KthOf(kept, j)))
            /\ s = <<>> => result = <<>>
            /\ s = ExampleLabels => result = << <<"a">>, <<"b">>, <<"c">> >>

C9_Witness ==
    /\ fpc = "parse_labels"
    /\ text = Some(ExampleLabels)
    /\ result = << <<"a">>, <<"b">>, <<"c">> >>

\* C10: at most one POST is in flight; each row is POSTed at most once and
\* the POSTs go in row order, so there are never more POSTs than rows; and
\* the POST of a row is sent only when every earlier row has its outcome line
\* and every earlier POST has been answered.
C10_SequentialSingleAttempt ==
    /\ Len(inflight) <= 1
    /\ inflight # <<>> => pc = "ci_wait"
    /\ \A j, k \in 1..Len(posts) : j < k => posts[j] < posts[k]
    /\ \A j \in 1..Len(posts) : posts[j] \in 1..i
    /\ Len(posts) <= fs.nrows
    /\ \A j \in 1..Len(posts) :
          posts[j] < i => \E k \in 1..Len(RowLines) : RowLines[k].i = posts[j]
    /\ (posts # <<>> /\ posts[Len(posts)] = i) => Len(RowLines) >= i - 1

C10_Witness ==
    /\ Len(posts) = 2
    /\ pc = "ci_wait"
    /\ RowLines # <<>>
    /\ RowLines[1].kind = "ERROR"
    /\ RowLines[1].arg.type = "RuntimeError"

=============================================================================
